---- MODULE Spec2Model ----
(***************************************************************************)
(* AACDecoder (media/libstagefright/codecs/aacdec/AACDecoder.cpp): the     *)
(* lifecycle (start / stop), the read path and its timestamp accounting.   *)
(* The upstream MediaSource, the MediaBufferGroup pool, the CHECK macros   *)
(* and the PV decode engine are collaborators that live outside this file; *)
(* they are modelled by their documented contracts.                        *)
(***************************************************************************)
EXTENDS Integers, Sequences, FiniteSets, TLC

VARIABLES
    mStarted,           \* bool mStarted
    mBufferGroup,       \* MediaBufferGroup *: <<>> is NULL, <<b>> a group holding the one MediaBuffer b
    mConfig,            \* tPVMP4AudioDecoderExternal *mConfig (the fields this file touches)
    mDecoderBuf,        \* void *mDecoderBuf: "NULL" or "block"
    mAnchorTimeUs,      \* int64_t mAnchorTimeUs
    mNumSamplesOutput,  \* int64_t mNumSamplesOutput
    mInputBuffer,       \* MediaBuffer *mInputBuffer: <<>> is NULL, <<u>> the unit held
    mSource,            \* the upstream MediaSource: format, units handed out, releases seen
    calls,              \* how often each lifecycle collaborator call has been made
    last,               \* the most recent call on the decoder: arguments, result, effects in order
    fatal               \* a CHECK failed (or a NULL group was dereferenced): the process is gone

vars == <<mStarted, mBufferGroup, mConfig, mDecoderBuf, mAnchorTimeUs,
          mNumSamplesOutput, mInputBuffer, mSource, calls, last, fatal>>

----------------------------------------------------------------------------
(* Bounds of the exploration.                                              *)
MaxUnits == 3
MaxStarts == 1
MaxSamples == 2048
MaxFormatUnits == 1

(* Values the collaborators may produce.                                   *)
SampleRates == {44100}
FrameCounts == {0, 1024}
TimeStamps == {0, 23219}
SeekTargets == {-1, 0}
UnitLengths == {1, 2}
Units == 1..MaxUnits

(* sizeof(int16_t) *)
SampleBytes == 2

(* Faulty variant: the pool's buffer is half as large.                     *)
BufferSize_Half == (2048 * 2) \div 2

(* new MediaBuffer(2048 * 2) *)
BufferSize == 2048 * 2

----------------------------------------------------------------------------
(* MediaBuffer contents, kept as runs <<length, kind>> from byte 0 on.     *)
(* kind is "stale" (never written), "pcm" (written by the engine) or       *)
(* "zero".                                                                 *)

RECURSIVE DropBytes(_, _)
DropBytes(runs, n) ==
    IF n = 0 \/ runs = <<>> THEN runs
    ELSE IF runs[1][1] <= n THEN DropBytes(Tail(runs), n - runs[1][1])
    ELSE <<<<runs[1][1] - n, runs[1][2]>>>> \o Tail(runs)

(* Overwrite bytes [0, n) of the buffer with `kind`.                       *)
Fill(runs, n, kind) ==
    IF n = 0 THEN runs
    ELSE LET rest == DropBytes(runs, n)
         IN IF rest # <<>> /\ rest[1][2] = kind
            THEN <<<<n + rest[1][1], kind>>>> \o Tail(rest)
            ELSE <<<<n, kind>>>> \o rest

(* Faulty variant: the silence covers one channel's worth of bytes only.  *)
Memset_Half(runs, numOutBytes) == Fill(runs, numOutBytes \div 2, "zero")

(* memset(buffer->data(), 0, numOutBytes) *)
Memset(runs, numOutBytes) == Fill(runs, numOutBytes, "zero")

RECURSIVE AllZero(_, _)
AllZero(runs, n) ==
    IF n = 0 THEN TRUE
    ELSE IF runs = <<>> THEN FALSE
    ELSE /\ runs[1][2] = "zero"
         /\ AllZero(Tail(runs), IF runs[1][1] >= n THEN 0 ELSE n - runs[1][1])

NewMediaBuffer(size) ==
    [size |-> size, data |-> <<<<size, "stale">>>>,
     range_offset |-> 0, range_length |-> size, time |-> <<>>, refcount |-> 0]

(* numOutBytes = frameLength * sizeof(int16_t) * desiredChannels *)
NumOutBytes(frameLength, desiredChannels) ==
    frameLength * SampleBytes * desiredChannels

(* Faulty variant: divides before scaling to microseconds.                *)
TimeUs_DivFirst(anchor, samples, samplingRate) ==
    anchor + ((samples \div samplingRate) * 1000000)

(* mAnchorTimeUs + (mNumSamplesOutput * 1000000) / samplingRate *)
TimeUs(anchor, samples, samplingRate) ==
    anchor + ((samples * 1000000) \div samplingRate)

----------------------------------------------------------------------------
(* The record of a call.                                                   *)
Call(op, options, ret, effects) ==
    [op |-> op, options |-> options, ret |-> ret, effects |-> effects,
     out |-> <<>>, pulled |-> <<>>, srcStatus |-> "NA", decoderErr |-> "NA",
     format |-> <<>>, srcOptions |-> "NA"]

Bump(c, names) == [k \in DOMAIN c |-> IF k \in names THEN c[k] + 1 ELSE c[k]]

(* Faulty variant: the unit is dropped without release.                   *)
ReleaseUnit_Leak(src, unit) == src

(* MediaBuffer::release() on an input unit, as the source sees it.         *)
ReleaseUnit(src, unit) ==
    [src EXCEPT !.released[unit.id] = @ + 1]

Has(seq, x) == \E i \in 1..Len(seq) : seq[i] = x

----------------------------------------------------------------------------
Init ==
    /\ mStarted = FALSE
    /\ mBufferGroup = <<>>
    /\ mConfig = [desiredChannels |-> 0, frameLength |-> 0, samplingRate |-> 0,
                  pInputBuffer |-> <<0, 0>>, inputBufferCurrentLength |-> 0,
                  inputBufferUsedLength |-> 0]
    /\ mDecoderBuf = "NULL"
    /\ mAnchorTimeUs = 0
    /\ mNumSamplesOutput = 0
    /\ mInputBuffer = <<>>
    /\ \E esds \in {"none", "valid", "malformed"} :
          mSource = [esds |-> esds,
                     csdSize |-> IF esds = "none" THEN 0 ELSE 2,
                     sampleRate |-> 44100,
                     hasSampleRate |-> TRUE,
                     channelCount |-> 2,
                     duration |-> <<>>,
                     pulled |-> 0,
                     lastTime |-> 0,
                     released |-> [u \in Units |-> 0]]
    /\ calls = [malloc |-> 0, free |-> 0, init |-> 0, config |-> 0,
                pool_new |-> 0, pool_delete |-> 0,
                source_start |-> 0, source_stop |-> 0]
    /\ last = Call("none", <<>>, "NA", <<>>)
    /\ fatal = FALSE

----------------------------------------------------------------------------
(* status_t AACDecoder::start(MetaData *params)                            *)

(* PVMP4AudioDecoderConfig(mConfig, mDecoderBuf) != MP4AUDEC_SUCCESS *)
StartConfigRejected(cfgOk) == ~cfgOk

start ==
    /\ ~fatal
    /\ IF mStarted
       THEN \* CHECK(!mStarted)
            /\ fatal' = TRUE
            /\ last' = Call("start", <<>>, "FATAL", <<>>)
            /\ UNCHANGED <<mStarted, mBufferGroup, mConfig, mDecoderBuf, mAnchorTimeUs,
                           mNumSamplesOutput, mInputBuffer, mSource, calls>>
       ELSE \E initOk \in BOOLEAN, cfgOk \in BOOLEAN, rate \in SampleRates :
            LET eff0 == <<"pool_new", "engine_malloc", "engine_init">>
                cfg0 == [mConfig EXCEPT !.desiredChannels = 2]
                cfg1 == [cfg0 EXCEPT !.pInputBuffer = <<0, 0>>,
                                     !.inputBufferCurrentLength = mSource.csdSize,
                                     !.inputBufferUsedLength = 0]
                calls0 == Bump(calls, {"pool_new", "malloc", "init"})
            IN
            /\ calls.malloc < MaxStarts
            /\ mBufferGroup' = <<NewMediaBuffer(BufferSize)>>
            /\ mDecoderBuf' = "block"
            /\ UNCHANGED mInputBuffer
            /\ IF ~initOk
               THEN \* CHECK_EQ(PVMP4AudioDecoderInitLibrary(...), MP4AUDEC_SUCCESS)
                    /\ fatal' = TRUE
                    /\ mConfig' = cfg0
                    /\ calls' = calls0
                    /\ last' = Call("start", <<>>, "FATAL", eff0)
                    /\ UNCHANGED <<mStarted, mAnchorTimeUs, mNumSamplesOutput, mSource>>
               ELSE IF mSource.esds = "malformed"
               THEN \* CHECK_EQ(esds.InitCheck(), OK)
                    /\ fatal' = TRUE
                    /\ mConfig' = cfg0
                    /\ calls' = calls0
                    /\ last' = Call("start", <<>>, "FATAL", eff0)
                    /\ UNCHANGED <<mStarted, mAnchorTimeUs, mNumSamplesOutput, mSource>>
               ELSE IF mSource.esds = "valid" /\ StartConfigRejected(cfgOk)
               THEN /\ fatal' = FALSE
                    /\ mConfig' = cfg1
                    /\ calls' = Bump(calls0, {"config"})
                    /\ last' = Call("start", <<>>, "ERROR_UNSUPPORTED",
                                    eff0 \o <<"engine_config">>)
                    /\ UNCHANGED <<mStarted, mAnchorTimeUs, mNumSamplesOutput, mSource>>
               ELSE LET configured == mSource.esds = "valid" IN
                    /\ fatal' = FALSE
                    /\ mConfig' = IF configured
                                  THEN [cfg1 EXCEPT !.samplingRate = rate]
                                  ELSE cfg0
                    /\ calls' = Bump(calls0, IF configured
                                             THEN {"config", "source_start"}
                                             ELSE {"source_start"})
                    /\ mAnchorTimeUs' = 0
                    /\ mNumSamplesOutput' = 0
                    /\ mStarted' = TRUE
                    /\ last' = Call("start", <<>>, "OK",
                                    eff0 \o (IF configured THEN <<"engine_config">> ELSE <<>>)
                                         \o <<"source_start">>)
                    /\ UNCHANGED mSource

----------------------------------------------------------------------------
(* status_t AACDecoder::stop()                                             *)

(* Faulty variant: stop() frees the engine state before it releases the   *)
(* pending unit.                                                          *)
StopEffects_EngineFirst(held) ==
    <<"engine_free">> \o (IF held THEN <<"input_release">> ELSE <<>>)
        \o <<"pool_delete", "source_stop">>

(* Faulty variant: stop() leaves the source running.                      *)
StopEffects_KeepSource(held) ==
    (IF held THEN <<"input_release">> ELSE <<>>)
        \o <<"engine_free", "pool_delete">>

(* Faulty variant: stop() forgets free(mDecoderBuf).                      *)
StopEffects_KeepEngine(held) ==
    (IF held THEN <<"input_release">> ELSE <<>>)
        \o <<"pool_delete", "source_stop">>

(* The teardown stop() performs once CHECK(mStarted) has passed.           *)
StopEffects(held) ==
    (IF held THEN <<"input_release">> ELSE <<>>)
        \o <<"engine_free", "pool_delete", "source_stop">>

stop ==
    /\ ~fatal
    /\ IF ~mStarted
       THEN \* CHECK(mStarted)
            /\ fatal' = TRUE
            /\ last' = Call("stop", <<>>, "FATAL", <<>>)
            /\ UNCHANGED <<mStarted, mBufferGroup, mConfig, mDecoderBuf, mAnchorTimeUs,
                           mNumSamplesOutput, mInputBuffer, mSource, calls>>
       ELSE LET held == mInputBuffer # <<>>
                eff == StopEffects(held)
            IN
            /\ mInputBuffer' = <<>>
            /\ mSource' = IF held THEN ReleaseUnit(mSource, mInputBuffer[1]) ELSE mSource
            /\ mDecoderBuf' = IF Has(eff, "engine_free") THEN "NULL" ELSE mDecoderBuf
            /\ mBufferGroup' = IF Has(eff, "pool_delete") THEN <<>> ELSE mBufferGroup
            /\ calls' = Bump(calls, {c \in {"free", "pool_delete", "source_stop"} :
                                        Has(eff, IF c = "free" THEN "engine_free" ELSE c)})
            /\ mStarted' = FALSE
            /\ fatal' = FALSE
            /\ last' = Call("stop", <<>>, "OK", eff)
            /\ UNCHANGED <<mConfig, mAnchorTimeUs, mNumSamplesOutput>>

----------------------------------------------------------------------------
(* mSource->read(&mInputBuffer, options): what the upstream source may     *)
(* answer.  A unit carries its window and, optionally, kKeyTime.  Without  *)
(* a seek the source's timestamps do not go backwards; a seek may land     *)
(* anywhere.  On a non-OK status the out-pointer is left NULL.             *)
SourceRead(src, options) ==
    LET seeking == options # <<>>
        stamps == IF seeking THEN TimeStamps
                  ELSE {t \in TimeStamps : t >= src.lastTime}
        times == {<<>>} \cup {<<t>> : t \in stamps}
    IN {[status |-> e, unit |-> <<>>, src |-> src] :
            e \in {"ERROR_END_OF_STREAM", "ERROR_IO"}}
       \cup
       (IF src.pulled < MaxUnits
        THEN {[status |-> "OK",
               unit |-> <<[id |-> src.pulled + 1, range_offset |-> 0,
                           range_length |-> n, time |-> tm]>>,
               src |-> [src EXCEPT !.pulled = @ + 1,
                                   !.lastTime = IF tm = <<>> THEN @ ELSE tm[1]]] :
                n \in UnitLengths, tm \in times}
        ELSE {})

(* PVMP4AudioDecodeFrame(mConfig, mDecoderBuf): the engine's answers for   *)
(* an input window of `length` bytes: its status, the frame count and      *)
(* sampling rate it reports, the bytes it consumed, and how many bytes of  *)
(* the output buffer it wrote before returning.                            *)
DecodeFrame(length, desiredChannels) ==
    {[err |-> "SUCCESS", frameLength |-> f, samplingRate |-> r,
      inputBufferUsedLength |-> k,
      written |-> f * SampleBytes * desiredChannels] :
        f \in FrameCounts, r \in SampleRates, k \in 0..length}
    \cup
    {[err |-> "FAIL", frameLength |-> f, samplingRate |-> r,
      inputBufferUsedLength |-> 0,
      written |-> w * SampleBytes * desiredChannels] :
        f \in FrameCounts, r \in SampleRates, w \in FrameCounts}

----------------------------------------------------------------------------
(* status_t AACDecoder::read(MediaBuffer **out, const ReadOptions *options) *)

(* A CHECK inside read() failed after the state had become (input, anchor, *)
(* samples, src).                                                          *)
ReadAbort(options, input, anchor, samples, src, eff, pulled, status, seen) ==
    /\ fatal' = TRUE
    /\ mInputBuffer' = input
    /\ mAnchorTimeUs' = anchor
    /\ mNumSamplesOutput' = samples
    /\ mSource' = src
    /\ last' = [Call("read", options, "FATAL", eff) EXCEPT !.pulled = pulled,
                                                            !.srcStatus = status,
                                                            !.srcOptions = seen]
    /\ UNCHANGED <<mStarted, mBufferGroup, mConfig, mDecoderBuf, calls>>

(* Lines 181-188: a freshly pulled unit that carries kKeyTime re-anchors   *)
(* the timeline and restarts the sample count.  (The _Keep, _Reset and     *)
(* _Off definitions are faulty variants of the definition they precede.)   *)
AnchorAfterPull_Keep(unit, anchor) == anchor

AnchorAfterPull(unit, anchor) ==
    IF unit.time # <<>> THEN unit.time[1] ELSE anchor

SamplesAfterPull_Reset(unit, samples) == 0

SamplesAfterPull(unit, samples) ==
    IF unit.time # <<>> THEN 0 ELSE samples

SamplesAfterSeek_Keep(seeking, samples) == samples

(* Line 164: a seek request restarts the sample count.                     *)
SamplesAfterSeek(seeking, samples) == IF seeking THEN 0 ELSE samples

SeekCheck_Off(seekTimeUs) == TRUE

(* CHECK(seekTimeUs >= 0) *)
SeekCheck(seekTimeUs) == seekTimeUs >= 0

(* Faulty variant: every upstream failure is reported as end of stream.   *)
ReadUpstreamFailure_Eos(options, status, samples, src, eff, seen) ==
    /\ mInputBuffer' = <<>>
    /\ mNumSamplesOutput' = samples
    /\ mSource' = src
    /\ fatal' = FALSE
    /\ last' = [Call("read", options, "ERROR_END_OF_STREAM", eff) EXCEPT
                    !.srcStatus = status, !.srcOptions = seen]
    /\ UNCHANGED <<mStarted, mBufferGroup, mConfig, mDecoderBuf, mAnchorTimeUs, calls>>

(* Lines 177-179: the upstream pull failed; read() returns its status.     *)
ReadUpstreamFailure(options, status, samples, src, eff, seen) ==
    /\ mInputBuffer' = <<>>
    /\ mNumSamplesOutput' = samples
    /\ mSource' = src
    /\ fatal' = FALSE
    /\ last' = [Call("read", options, status, eff) EXCEPT
                    !.srcStatus = status, !.srcOptions = seen]
    /\ UNCHANGED <<mStarted, mBufferGroup, mConfig, mDecoderBuf, mAnchorTimeUs, calls>>

(* Faulty variant: the window of the unit is left where it was.           *)
SetRange_Noop(unit, offset, length) == unit

(* Lines 225-227: mInputBuffer->set_range(offset, length).                 *)
SetRange(unit, offset, length) ==
    [unit EXCEPT !.range_offset = offset, !.range_length = length]

(* Faulty variant: a fully consumed unit is kept.                         *)
Drained_Never(unit) == FALSE

(* Line 229: mInputBuffer->range_length() == 0.                            *)
Drained(unit) == unit.range_length = 0

(* Faulty variant: the reference taken on the buffer is given up again.   *)
AcquireBuffer_Unowned(buffer) == buffer

(* Lines 191-192, 243: acquire_buffer() takes the one reference on the     *)
(* buffer, which read() passes to the caller through *out.                 *)
AcquireBuffer(buffer) == [buffer EXCEPT !.refcount = 1]

(* Lines 191-245: acquire the output buffer, run one decode step on the    *)
(* window of `unit`, substitute silence on failure, advance the window,    *)
(* stamp the buffer and hand it out.                                       *)
ReadDecode(options, unit, anchor, samples, src, eff, pulled, status, seen) ==
    IF mBufferGroup = <<>>
    THEN \* mBufferGroup->acquire_buffer on a NULL group
         ReadAbort(options, <<unit>>, anchor, samples, src, eff, pulled, status,
                   seen)
    ELSE IF mBufferGroup[1].refcount # 0
    THEN \* CHECK_EQ(mBufferGroup->acquire_buffer(&buffer), OK)
         ReadAbort(options, <<unit>>, anchor, samples, src,
                   eff \o <<"pool_acquire">>, pulled, status, seen)
    ELSE \E d \in DecodeFrame(unit.range_length, mConfig.desiredChannels) :
         LET buffer == mBufferGroup[1]
             failed == d.err # "SUCCESS"
             numOutBytes == NumOutBytes(d.frameLength, mConfig.desiredChannels)
             data1 == Fill(buffer.data, d.written, "pcm")
             data2 == IF failed
                      THEN Memset(data1, numOutBytes)
                      ELSE data1
             unit2 == SetRange(unit,
                               unit.range_offset + d.inputBufferUsedLength,
                               unit.range_length - d.inputBufferUsedLength)
             drained == failed \/ Drained(unit2)
             timeUs == TimeUs(anchor, samples, d.samplingRate)
             eff2 == eff \o <<"pool_acquire", "decode">>
                         \o (IF failed THEN <<"memset">> ELSE <<>>)
                         \o (IF drained THEN <<"input_release">> ELSE <<>>)
         IN
         /\ samples + d.frameLength <= MaxSamples
         /\ mConfig' = [mConfig EXCEPT
                            !.pInputBuffer = <<unit.id, unit.range_offset>>,
                            !.inputBufferCurrentLength = unit.range_length,
                            !.inputBufferUsedLength = d.inputBufferUsedLength,
                            !.frameLength = d.frameLength,
                            !.samplingRate = d.samplingRate]
         /\ mInputBuffer' = IF drained THEN <<>> ELSE <<unit2>>
         /\ mSource' = IF drained THEN ReleaseUnit(src, unit) ELSE src
         /\ mBufferGroup' = <<[AcquireBuffer(buffer) EXCEPT
                                   !.data = data2,
                                   !.range_offset = 0,
                                   !.range_length = numOutBytes,
                                   !.time = <<timeUs>>]>>
         /\ mAnchorTimeUs' = anchor
         /\ mNumSamplesOutput' = samples + d.frameLength
         /\ fatal' = FALSE
         /\ last' = [Call("read", options, "OK", eff2) EXCEPT
                        !.out = <<[time |-> timeUs, range_offset |-> 0,
                                   range_length |-> numOutBytes]>>,
                        !.pulled = pulled,
                        !.srcStatus = status,
                        !.srcOptions = seen,
                        !.decoderErr = d.err]
         /\ UNCHANGED <<mStarted, mDecoderBuf, calls>>

(* Faulty variant: the seek request is not passed on to the source.       *)
PullOptions_None(options) == <<>>

(* Line 175: the options mSource->read() is called with.                   *)
PullOptions(options) == options

read(options) ==
    /\ ~fatal
    /\ LET seeking == options # <<>>
           seekTimeUs == IF seeking THEN options[1] ELSE -1
       IN
       IF seeking /\ ~SeekCheck(seekTimeUs)
       THEN ReadAbort(options, mInputBuffer, mAnchorTimeUs, mNumSamplesOutput,
                      mSource, <<>>, <<>>, "NA", "NA")
       ELSE
       LET drop == seeking /\ mInputBuffer # <<>>
           samples1 == SamplesAfterSeek(seeking, mNumSamplesOutput)
           input1 == IF seeking THEN <<>> ELSE mInputBuffer
           src1 == IF drop THEN ReleaseUnit(mSource, mInputBuffer[1]) ELSE mSource
           eff1 == IF drop THEN <<"input_release">> ELSE <<>>
       IN
       IF input1 = <<>>
       THEN \E r \in SourceRead(src1, PullOptions(options)) :
            LET eff2 == eff1 \o <<"source_read">>
                seen == PullOptions(options)
            IN
            IF r.status # "OK"
            THEN ReadUpstreamFailure(options, r.status, samples1, r.src, eff2,
                                     seen)
            ELSE LET unit == r.unit[1]
                     stamped == unit.time # <<>>
                 IN IF ~stamped /\ ~(seekTimeUs < 0)
                    THEN \* CHECK(seekTimeUs < 0)
                         ReadAbort(options, <<unit>>, mAnchorTimeUs, samples1,
                                   r.src, eff2, <<unit>>, "OK", seen)
                    ELSE ReadDecode(options, unit,
                                    AnchorAfterPull(unit, mAnchorTimeUs),
                                    SamplesAfterPull(unit, samples1),
                                    r.src, eff2, <<unit>>, "OK", seen)
       ELSE ReadDecode(options, input1[1], mAnchorTimeUs, samples1, src1, eff1,
                       <<>>, "NA", "NA")

ReadOptions == {<<>>} \cup {<<t>> : t \in SeekTargets}

Read == \E options \in ReadOptions : read(options)

----------------------------------------------------------------------------
(* The downstream consumer hands the output buffer back to the pool        *)
(* (MediaBuffer::release() on the buffer read() returned).                 *)
ReleaseOutput ==
    /\ ~fatal
    /\ mBufferGroup # <<>>
    /\ mBufferGroup[1].refcount = 1
    /\ mBufferGroup' = <<[mBufferGroup[1] EXCEPT !.refcount = 0]>>
    /\ UNCHANGED <<mStarted, mConfig, mDecoderBuf, mAnchorTimeUs, mNumSamplesOutput,
                   mInputBuffer, mSource, calls, last, fatal>>

----------------------------------------------------------------------------
Next == start \/ stop \/ Read \/ ReleaseOutput

Spec == Init /\ [][Next]_vars

----------------------------------------------------------------------------
(* sp<MetaData> AACDecoder::getFormat()                                    *)

(* Faulty variant: the channel count is copied from the source.           *)
OutputFormat_SourceChannels(src) ==
    [mime |-> "audio/raw", channelCount |-> src.channelCount,
     sampleRate |-> src.sampleRate, duration |-> src.duration,
     component |-> "AACDecoder"]

(* Lines 135-149: the MetaData getFormat() builds from the source's.       *)
OutputFormat(src) ==
    [mime |-> "audio/raw", channelCount |-> 2,
     sampleRate |-> src.sampleRate, duration |-> src.duration,
     component |-> "AACDecoder"]

getFormat ==
    /\ ~fatal
    /\ IF ~mSource.hasSampleRate
       THEN \* CHECK(srcFormat->findInt32(kKeySampleRate, &sampleRate))
            /\ fatal' = TRUE
            /\ last' = Call("getFormat", <<>>, "FATAL", <<"source_getFormat">>)
       ELSE /\ fatal' = FALSE
            /\ last' = [Call("getFormat", <<>>, "OK", <<"source_getFormat">>)
                           EXCEPT !.format = <<OutputFormat(mSource)>>]
    /\ UNCHANGED <<mStarted, mBufferGroup, mConfig, mDecoderBuf, mAnchorTimeUs,
                   mNumSamplesOutput, mInputBuffer, mSource, calls>>

(* The formats the upstream source may report: input channel count 1 or 2, *)
(* a sample rate (or none), a duration (or none).                          *)
SourceChannelCounts == {1, 2}
SourceFormats ==
    {[channelCount |-> ch, hasSampleRate |-> TRUE, sampleRate |-> 22050,
      duration |-> <<>>] : ch \in SourceChannelCounts}
    \cup {[channelCount |-> ch, hasSampleRate |-> TRUE, sampleRate |-> 44100,
           duration |-> <<1000000>>] : ch \in SourceChannelCounts}
    \cup {[channelCount |-> 2, hasSampleRate |-> FALSE, sampleRate |-> 0,
           duration |-> <<>>]}

InitFormat ==
    /\ mStarted = FALSE
    /\ mBufferGroup = <<>>
    /\ mConfig = [desiredChannels |-> 0, frameLength |-> 0, samplingRate |-> 0,
                  pInputBuffer |-> <<0, 0>>, inputBufferCurrentLength |-> 0,
                  inputBufferUsedLength |-> 0]
    /\ mDecoderBuf = "NULL"
    /\ mAnchorTimeUs = 0
    /\ mNumSamplesOutput = 0
    /\ mInputBuffer = <<>>
    /\ \E esds \in {"none", "valid", "malformed"}, fmt \in SourceFormats :
          mSource = [esds |-> esds,
                     csdSize |-> IF esds = "none" THEN 0 ELSE 2,
                     sampleRate |-> fmt.sampleRate,
                     hasSampleRate |-> fmt.hasSampleRate,
                     channelCount |-> fmt.channelCount,
                     duration |-> fmt.duration,
                     pulled |-> 0,
                     lastTime |-> 0,
                     released |-> [u \in Units |-> 0]]
    /\ calls = [malloc |-> 0, free |-> 0, init |-> 0, config |-> 0,
                pool_new |-> 0, pool_delete |-> 0,
                source_start |-> 0, source_stop |-> 0]
    /\ last = Call("none", <<>>, "NA", <<>>)
    /\ fatal = FALSE

(* The decoder with getFormat() callable between any two other calls, over *)
(* every source format, the stream cut after MaxFormatUnits units.         *)
NextFormat ==
    \/ getFormat
    \/ (Next /\ mSource'.pulled <= MaxFormatUnits)

SpecFormat == InitFormat /\ [][NextFormat]_vars

----------------------------------------------------------------------------
(* Which kind of step a transition is.  ReleaseOutput is the consumer's;   *)
(* every other step is a call on the decoder, recorded in last'.           *)
StartStep == ~ReleaseOutput /\ last'.op = "start"
StopStep == ~ReleaseOutput /\ last'.op = "stop"
ReadStep == ~ReleaseOutput /\ last'.op = "read"

(* The call did not return: the process was terminated inside it.          *)
DidNotReturn(l) == l.ret = "FATAL" /\ l.out = <<>>

(* start returned ERROR_UNSUPPORTED and no start has succeeded since.      *)
StartRejected == ~fatal /\ ~mStarted /\ mDecoderBuf # "NULL"

(* A read without a seek request that returned a buffer.                   *)
SeeklessOK(l) == l.op = "read" /\ l.ret = "OK" /\ l.options = <<>>

(* The read passed CHECK(seekTimeUs >= 0).                                 *)
SeekAccepted(l) == l.options = <<>> \/ l.options[1] >= 0

----------------------------------------------------------------------------
(* C1: in every state reached by start, stop and read calls that returned  *)
(* (a start that returns ERROR_UNSUPPORTED included), mDecoderBuf is       *)
(* allocated if and only if mStarted.                                      *)
C1_EngineStateIffStarted ==
    ~fatal => ((mDecoderBuf # "NULL") <=> mStarted)

(* C2: once start has returned ERROR_UNSUPPORTED, every read or stop is    *)
(* fatal: the read pulls nothing from the upstream source and returns no   *)
(* buffer, the stop does not return.                                       *)
C2_RejectedStartMakesReadAndStopFatal ==
    [][(StartRejected /\ (ReadStep \/ StopStep))
         => (fatal' /\ DidNotReturn(last') /\ ~Has(last'.effects, "source_read"))]_vars

(* C3: a stop on a started stage frees the engine state (one more free),   *)
(* deletes the pool, releases the pending input unit, stops the source     *)
(* and clears mStarted; when every start so far succeeded, the engine has  *)
(* been initialised once and freed once per start.                         *)
C3_StopReleasesEverything ==
    [][(mStarted /\ StopStep)
         => /\ last'.ret = "OK"
            /\ ~mStarted'
            /\ mDecoderBuf' = "NULL"
            /\ mBufferGroup' = <<>>
            /\ mInputBuffer' = <<>>
            /\ calls'.free = calls.free + 1
            /\ calls'.pool_delete = calls.pool_delete + 1
            /\ calls'.source_stop = calls.source_stop + 1
            /\ calls'.init = calls.init
            /\ (mInputBuffer # <<>>
                  => mSource'.released[mInputBuffer[1].id] = 1)
            /\ (calls.malloc = calls.source_start
                  => /\ calls'.init = calls'.source_start
                     /\ calls'.free = calls'.init
                     /\ calls'.malloc = calls'.free
                     /\ calls'.pool_new = calls'.pool_delete
                     /\ calls'.source_stop = calls'.source_start)]_vars

C3_Witness ==
    /\ last.op = "stop" /\ last.ret = "OK"
    /\ Has(last.effects, "input_release")
    /\ calls.init = 1 /\ calls.free = 1 /\ calls.source_stop = 1

(* C4: a read whose decode step fails returns OK with a buffer of range    *)
(* [0, frameLength * 2 * 2) that is all zero, and has released and cleared *)
(* the pending unit; the read that follows pulls from the upstream source  *)
(* and never feeds the failed unit to the engine again.                    *)
C4_DecodeFailureGivesSilence ==
    [][ReadStep
         => /\ (last'.decoderErr = "FAIL"
                  => /\ last'.ret = "OK"
                     /\ last'.out # <<>>
                     /\ last'.out[1].range_offset = 0
                     /\ last'.out[1].range_length = mConfig'.frameLength * 2 * 2
                     /\ mBufferGroup'[1].range_length = last'.out[1].range_length
                     /\ AllZero(mBufferGroup'[1].data, last'.out[1].range_length)
                     /\ mInputBuffer' = <<>>
                     /\ mSource'.released[mConfig'.pInputBuffer[1]] = 1)
            /\ ((last.decoderErr = "FAIL" /\ SeekAccepted(last'))
                  => /\ Has(last'.effects, "source_read")
                     /\ (last'.pulled # <<>>
                           => /\ last'.pulled[1].id > mSource.pulled
                              /\ last'.pulled[1].id # mConfig.pInputBuffer[1])
                     /\ (last'.decoderErr # "NA"
                           => mConfig'.pInputBuffer[1] # mConfig.pInputBuffer[1]))]_vars

C4_Witness ==
    /\ last.op = "read" /\ last.decoderErr = "FAIL"
    /\ mConfig.frameLength = 1024
    /\ mConfig.pInputBuffer[2] = 1 /\ mConfig.inputBufferCurrentLength = 1
    /\ last.out[1].range_length = 4096

(* The stamp of the buffer a read returned, from the state it left.        *)
StampFormula ==
    last'.out[1].time =
        mAnchorTimeUs' + (((mNumSamplesOutput' - mConfig'.frameLength) * 1000000)
                            \div mConfig'.samplingRate)

(* C5, as stated: over successive successful reads without seek the        *)
(* timestamps never decrease, and each one is anchor + samples * 1000000 / *)
(* samplingRate with the values in force before the increment.             *)
C5_TimestampsNeverDecrease ==
    [][(ReadStep /\ SeeklessOK(last'))
         => /\ StampFormula
            /\ (SeeklessOK(last) => last'.out[1].time >= last.out[1].time)]_vars

(* C5, amended: the formula holds for every successful read without seek;  *)
(* the timestamp does not decrease from one such read to the next when    *)
(* the later one pulled no timestamped unit and the engine reports the     *)
(* same sampling rate.                                                     *)
C5_TimestampsWithinAnchorRun ==
    [][(ReadStep /\ SeeklessOK(last'))
         => /\ StampFormula
            /\ ((/\ SeeklessOK(last)
                 /\ (last'.pulled = <<>> \/ last'.pulled[1].time = <<>>)
                 /\ mConfig'.samplingRate = mConfig.samplingRate)
                  => last'.out[1].time >= last.out[1].time)]_vars

C5_Witness ==
    /\ SeeklessOK(last)
    /\ last.pulled = <<>>
    /\ last.out[1].time = 23219
    /\ mNumSamplesOutput = 2048

(* C6: a read with a seek to t >= 0 that succeeds returns a buffer stamped *)
(* with the timestamp of the unit pulled in that call, and leaves          *)
(* mNumSamplesOutput equal to the frame count of that call.                *)
C6_SeekRestartsTimeline ==
    [][(ReadStep /\ last'.options # <<>> /\ last'.ret = "OK")
         => /\ last'.options[1] >= 0
            /\ last'.pulled # <<>>
            /\ last'.pulled[1].time = <<last'.out[1].time>>
            /\ mAnchorTimeUs' = last'.out[1].time
            /\ mNumSamplesOutput' = mConfig'.frameLength]_vars

C6_Witness ==
    /\ last.op = "read" /\ last.ret = "OK" /\ last.options = <<0>>
    /\ Has(last.effects, "input_release")
    /\ last.pulled[1].time = <<23219>>
    /\ last.out[1].time = 23219
    /\ mNumSamplesOutput = 1024

(* C7: when the upstream pull fails, read returns the source's status,     *)
(* hands out no buffer, neither acquires from the pool nor runs the        *)
(* engine, and holds no input unit.                                        *)
C7_UpstreamFailurePropagates ==
    [][(ReadStep /\ last'.srcStatus \notin {"NA", "OK"})
         => /\ last'.ret = last'.srcStatus
            /\ ~fatal'
            /\ last'.out = <<>>
            /\ ~Has(last'.effects, "pool_acquire")
            /\ ~Has(last'.effects, "decode")
            /\ mBufferGroup' = mBufferGroup
            /\ mConfig' = mConfig
            /\ mInputBuffer' = <<>>]_vars

C7_Witness ==
    /\ last.op = "read" /\ last.ret = "ERROR_IO"
    /\ last.options = <<0>>
    /\ Has(last.effects, "input_release")
    /\ mInputBuffer = <<>>

(* C8, as stated: the pool's buffer holds 2 channels x 2048 samples x 2    *)
(* bytes, so the range of every frame count from 0 to 2048 fits.           *)
C8_BufferHolds2048Frames ==
    mBufferGroup # <<>>
      => /\ mBufferGroup[1].size = 2 * 2048 * SampleBytes
         /\ \A f \in 0..2048 : NumOutBytes(f, 2) <= mBufferGroup[1].size

(* C8, amended: the pool's buffer holds 2048 * 2 = 4096 bytes, that is     *)
(* 2 channels x 1024 samples x 2 bytes, so the range of every frame count  *)
(* from 0 to 1024 fits, and so does every range read has set.              *)
C8_BufferHolds1024Frames ==
    mBufferGroup # <<>>
      => /\ mBufferGroup[1].size = 2 * 1024 * SampleBytes
         /\ \A f \in 0..1024 : NumOutBytes(f, 2) <= mBufferGroup[1].size
         /\ mBufferGroup[1].range_offset + mBufferGroup[1].range_length
                <= mBufferGroup[1].size
         /\ (last.out # <<>>
               => mBufferGroup[1].range_length
                    = NumOutBytes(mConfig.frameLength, mConfig.desiredChannels))

C8_Witness ==
    /\ last.op = "read" /\ last.ret = "OK"
    /\ mBufferGroup # <<>>
    /\ mConfig.frameLength = 1024
    /\ mBufferGroup[1].range_length = mBufferGroup[1].size

(* C9: start while started, stop while not started, a read with a negative *)
(* seek target, and a seeking read whose pulled unit has no timestamp are  *)
(* each fatal: the call does not return, and nothing runs afterwards.      *)
C9_PreconditionViolationsAreFatal ==
    [][/\ ~fatal
       /\ ((StartStep /\ mStarted) => (fatal' /\ DidNotReturn(last')))
       /\ ((StopStep /\ ~mStarted) => (fatal' /\ DidNotReturn(last')))
       /\ ((ReadStep /\ last'.options # <<>> /\ last'.options[1] < 0)
             => (fatal' /\ DidNotReturn(last') /\ last'.effects = <<>>))
       /\ ((ReadStep /\ last'.options # <<>> /\ last'.pulled # <<>>
              /\ last'.pulled[1].time = <<>>)
             => (fatal' /\ DidNotReturn(last')))]_vars

C9_Witness ==
    /\ fatal
    /\ last.op = "read" /\ last.options = <<0>>
    /\ last.pulled # <<>> /\ last.pulled[1].time = <<>>
    /\ DidNotReturn(last)

(* The state after the first read of the scenario of C10: source rate      *)
(* 44100, no codec-config blob, unit 1 stamped 0 us, 1024 frames, every    *)
(* byte consumed.                                                          *)
C10_AfterFirstRead ==
    /\ mSource.sampleRate = 44100 /\ mSource.esds = "none"
    /\ mStarted
    /\ last.op = "read" /\ last.ret = "OK" /\ last.decoderErr = "SUCCESS"
    /\ last.pulled # <<>> /\ last.pulled[1].id = 1 /\ last.pulled[1].time = <<0>>
    /\ mConfig.frameLength = 1024 /\ mConfig.samplingRate = 44100
    /\ mInputBuffer = <<>>
    /\ mAnchorTimeUs = 0 /\ mNumSamplesOutput = 1024

(* The second read of the scenario: no seek, the decode step fails.        *)
C10_SecondReadFails ==
    /\ C10_AfterFirstRead
    /\ ReadStep /\ last'.options = <<>> /\ last'.decoderErr = "FAIL"
    /\ mConfig'.samplingRate = 44100

C10_SilentBuffer ==
    /\ last'.ret = "OK"
    /\ last'.out[1].range_length = mConfig'.frameLength * 2 * 2
    /\ AllZero(mBufferGroup'[1].data, last'.out[1].range_length)
    /\ mInputBuffer' = <<>>

(* The read that follows the second one pulls from the upstream source.    *)
C10_ThirdReadPulls ==
    (/\ last.op = "read" /\ last.decoderErr = "FAIL"
     /\ last.pulled # <<>> /\ last.pulled[1].id = 2
     /\ ReadStep /\ SeekAccepted(last'))
      => /\ Has(last'.effects, "source_read")
         /\ (last'.pulled # <<>> => last'.pulled[1].id = 3)

(* C10, as stated: the second read returns a zero-filled buffer stamped    *)
(* 1024 * 1000000 / 44100 = 23219 us, and the next read pulls a new unit.  *)
C10_SecondStampIs23219 ==
    [][/\ (C10_SecondReadFails
             => (C10_SilentBuffer /\ last'.out[1].time = 23219))
       /\ C10_ThirdReadPulls]_vars

(* C10, amended: the stamp is 23219 us when the unit the second read pulls *)
(* carries no timestamp, and that unit's own timestamp when it carries     *)
(* one.                                                                    *)
C10_SecondStampFollowsUnit ==
    [][/\ (C10_SecondReadFails
             => /\ C10_SilentBuffer
                /\ last'.pulled # <<>> /\ last'.pulled[1].id = 2
                /\ last'.out[1].time =
                     IF last'.pulled[1].time = <<>>
                     THEN (1024 * 1000000) \div 44100
                     ELSE last'.pulled[1].time[1]
                /\ (last'.pulled[1].time = <<>> => last'.out[1].time = 23219))
       /\ C10_ThirdReadPulls]_vars

C10_Witness ==
    /\ mSource.esds = "none" /\ mSource.sampleRate = 44100
    /\ last.op = "read" /\ last.ret = "OK" /\ last.decoderErr = "FAIL"
    /\ last.pulled # <<>> /\ last.pulled[1].id = 2 /\ last.pulled[1].time = <<>>
    /\ mAnchorTimeUs = 0
    /\ last.out[1].time = 23219
    /\ mSource.released[1] = 1 /\ mSource.released[2] = 1

----------------------------------------------------------------------------
GetFormatStep == ~ReleaseOutput /\ last'.op = "getFormat"

(* C11: in every lifecycle state and for every input channel count the     *)
(* source reports (1 or 2), a getFormat call on a source whose format has  *)
(* a sample rate returns a format with channel count 2 and the source's    *)
(* sample rate, and it changes no field of the decoder, of the source or   *)
(* of the collaborators' call counts.                                      *)
C11_GetFormatReportsStereoAndSourceRate ==
    [][GetFormatStep
         => /\ UNCHANGED <<mStarted, mBufferGroup, mConfig, mDecoderBuf,
                           mAnchorTimeUs, mNumSamplesOutput, mInputBuffer,
                           mSource, calls>>
            /\ (mSource.hasSampleRate
                  => /\ ~fatal'
                     /\ last'.ret = "OK"
                     /\ last'.format # <<>>
                     /\ last'.format[1].channelCount = 2
                     /\ last'.format[1].sampleRate = mSource.sampleRate)]_vars

C11_Witness ==
    /\ last.op = "getFormat" /\ last.ret = "OK"
    /\ mStarted /\ mInputBuffer # <<>>
    /\ mSource.channelCount = 1 /\ mSource.sampleRate = 22050
    /\ mConfig.samplingRate = 44100
    /\ last.format[1].channelCount = 2 /\ last.format[1].sampleRate = 22050

----------------------------------------------------------------------------
(* The read carries a seek request that passed CHECK(seekTimeUs >= 0).     *)
SeekRequested(l) == l.options # <<>> /\ l.options[1] >= 0

(* The read pulled a unit that carries a timestamp.                        *)
PulledStamped(l) == l.pulled # <<>> /\ l.pulled[1].time # <<>>

(* C12: a read that returns a buffer leaves mNumSamplesOutput at the frame *)
(* count it produced (a restart from 0) exactly when it carried a seek     *)
(* request or pulled a unit with a timestamp, and that timestamp is then   *)
(* the new mAnchorTimeUs; every other read that returns a buffer           *)
(* (continuing a pending unit, or pulling a unit without a timestamp)      *)
(* leaves mAnchorTimeUs unchanged and adds the frame count produced to     *)
(* mNumSamplesOutput, whether the decode step succeeded or failed. A read  *)
(* that returns an upstream error leaves the anchor unchanged and the      *)
(* count at 0 after a seek request, unchanged otherwise.                   *)
C12_SampleCountRestartsOnSeekOrStamp ==
    [][ReadStep
         => /\ (last'.ret = "OK"
                  => /\ last'.decoderErr \in {"SUCCESS", "FAIL"}
                     /\ ((SeekRequested(last') \/ PulledStamped(last'))
                           => mNumSamplesOutput' = mConfig'.frameLength)
                     /\ (PulledStamped(last')
                           => mAnchorTimeUs' = last'.pulled[1].time[1])
                     /\ (~(SeekRequested(last') \/ PulledStamped(last'))
                           => /\ mAnchorTimeUs' = mAnchorTimeUs
                              /\ mNumSamplesOutput' =
                                   mNumSamplesOutput + mConfig'.frameLength))
            /\ ((last'.ret # "OK" /\ ~fatal')
                  => /\ mAnchorTimeUs' = mAnchorTimeUs
                     /\ mNumSamplesOutput' =
                          IF SeekRequested(last') THEN 0 ELSE mNumSamplesOutput)]_vars

C12_Witness ==
    /\ last.op = "read" /\ last.ret = "OK" /\ last.options = <<>>
    /\ last.pulled = <<>> /\ last.decoderErr = "FAIL"
    /\ mConfig.frameLength = 1024
    /\ mNumSamplesOutput = 2048 /\ mAnchorTimeUs = 23219

----------------------------------------------------------------------------
(* What the engine was last fed: the unit, the window offset and length,   *)
(* and the bytes it consumed.                                              *)
FedUnit(c) == c.pInputBuffer[1]
FedOffset(c) == c.pInputBuffer[2]

(* C13: a read whose decode step succeeded having consumed k bytes of a    *)
(* window (offset, n): if k < n the unit stays in mInputBuffer, unreleased,*)
(* with window (offset + k, n - k), and the next read that carries no seek *)
(* request pulls nothing from the source and, when it reaches the decode   *)
(* step, feeds the engine exactly that window; if k = n the unit is        *)
(* released, mInputBuffer is NULL, and the next read without seek pulls    *)
(* from the source.                                                        *)
C13_PartialConsumptionKeepsRemainder ==
    [][ReadStep
         => /\ (last'.decoderErr = "SUCCESS"
                  => LET id == FedUnit(mConfig')
                         n == mConfig'.inputBufferCurrentLength
                         k == mConfig'.inputBufferUsedLength
                     IN IF k < n
                        THEN /\ Len(mInputBuffer') = 1
                             /\ mInputBuffer'[1].id = id
                             /\ mInputBuffer'[1].range_offset = FedOffset(mConfig') + k
                             /\ mInputBuffer'[1].range_length = n - k
                             /\ mSource'.released[id] = 0
                        ELSE /\ k = n
                             /\ mInputBuffer' = <<>>
                             /\ mSource'.released[id] = 1)
            /\ ((last.op = "read" /\ last.decoderErr = "SUCCESS"
                   /\ last'.options = <<>>)
                  => IF mConfig.inputBufferUsedLength < mConfig.inputBufferCurrentLength
                     THEN /\ ~Has(last'.effects, "source_read")
                          /\ last'.pulled = <<>>
                          /\ mSource'.pulled = mSource.pulled
                          /\ (last'.decoderErr # "NA"
                                => /\ FedUnit(mConfig') = FedUnit(mConfig)
                                   /\ FedOffset(mConfig') =
                                        FedOffset(mConfig) + mConfig.inputBufferUsedLength
                                   /\ mConfig'.inputBufferCurrentLength =
                                        mConfig.inputBufferCurrentLength
                                          - mConfig.inputBufferUsedLength)
                     ELSE /\ last'.effects[1] = "source_read"
                          /\ (last'.pulled # <<>>
                                => last'.pulled[1].id # FedUnit(mConfig)))]_vars

C13_Witness ==
    /\ last.op = "read" /\ last.ret = "OK" /\ last.options = <<>>
    /\ last.pulled = <<>> /\ last.decoderErr = "SUCCESS"
    /\ FedOffset(mConfig) = 1 /\ mConfig.inputBufferCurrentLength = 1
    /\ mConfig.inputBufferUsedLength = 1
    /\ mInputBuffer = <<>> /\ mSource.released[FedUnit(mConfig)] = 1

----------------------------------------------------------------------------
(* C14: every read that carries a seek request (one that passes            *)
(* CHECK(seekTimeUs >= 0)) first releases the unit held in mInputBuffer,   *)
(* if any, and then calls mSource->read exactly once, in that same call,   *)
(* with the options it was given; when the source answers OK exactly one   *)
(* new unit has been pulled. So the source sees the seek request whether   *)
(* or not a partially consumed unit was held.                              *)
C14_SeekReleasesThenPullsOnce ==
    [][(ReadStep /\ SeekRequested(last'))
         => LET e == last'.effects
                held == mInputBuffer # <<>>
            IN /\ IF held
                  THEN /\ Len(e) >= 2
                       /\ e[1] = "input_release" /\ e[2] = "source_read"
                       /\ mSource'.released[mInputBuffer[1].id] =
                            mSource.released[mInputBuffer[1].id] + 1
                       /\ (mInputBuffer' # <<>>
                             => mInputBuffer'[1].id # mInputBuffer[1].id)
                  ELSE /\ Len(e) >= 1
                       /\ e[1] = "source_read"
               /\ Cardinality({i \in DOMAIN e : e[i] = "source_read"}) = 1
               /\ last'.srcOptions = last'.options
               /\ last'.srcStatus # "NA"
               /\ IF last'.srcStatus = "OK"
                  THEN /\ mSource'.pulled = mSource.pulled + 1
                       /\ last'.pulled # <<>>
                       /\ last'.pulled[1].id = mSource'.pulled
                  ELSE /\ mSource'.pulled = mSource.pulled
                       /\ last'.pulled = <<>>]_vars

C14_Witness ==
    /\ last.op = "read" /\ last.ret = "OK" /\ last.options = <<0>>
    /\ Len(last.effects) >= 2
    /\ last.effects[1] = "input_release" /\ last.effects[2] = "source_read"
    /\ last.srcOptions = <<0>>
    /\ last.pulled # <<>> /\ last.pulled[1].id = 2
    /\ mSource.released[1] = 1

----------------------------------------------------------------------------
(* C15: a stop on a started stage makes its collaborator calls in this     *)
(* order: release of the unit held in mInputBuffer (only if one is held),  *)
(* free of the engine state, delete of the pool, mSource->stop(); it       *)
(* returns with mStarted false. As a consequence, in every state in which  *)
(* the process is alive, a unit held in mInputBuffer implies that          *)
(* mDecoderBuf is allocated.                                               *)
C15_StopTearsDownInOrder ==
    [][/\ ((mStarted /\ StopStep)
             => /\ last'.effects =
                     IF mInputBuffer # <<>>
                     THEN <<"input_release", "engine_free", "pool_delete",
                            "source_stop">>
                     ELSE <<"engine_free", "pool_delete", "source_stop">>
                /\ ~mStarted'
                /\ mInputBuffer' = <<>>
                /\ mDecoderBuf' = "NULL")
       /\ (~fatal' => (mInputBuffer' # <<>> => mDecoderBuf' # "NULL"))]_vars

C15_Witness ==
    /\ last.op = "stop" /\ last.ret = "OK"
    /\ last.effects = <<"input_release", "engine_free", "pool_delete",
                        "source_stop">>
    /\ ~mStarted /\ mInputBuffer = <<>> /\ mDecoderBuf = "NULL"
    /\ mSource.released[1] = 1

----------------------------------------------------------------------------
(* The unit is the one held in mInputBuffer.                               *)
Held(u) == mInputBuffer # <<>> /\ mInputBuffer[1].id = u

(* C16: in every state reached by start, read (with or without seek, the   *)
(* decode step succeeding or failing) and stop, the stage holds at most    *)
(* one input unit, and every unit pulled from the source so far is either  *)
(* the one held, not yet released, or has been released exactly once; no   *)
(* unit is released twice or dropped unreleased, and after a stop that     *)
(* returned every unit pulled has been released exactly once.              *)
C16_EveryUnitReleasedOnce ==
    /\ Len(mInputBuffer) <= 1
    /\ (mInputBuffer # <<>> => mInputBuffer[1].id \in 1..mSource.pulled)
    /\ \A u \in Units :
          /\ mSource.released[u] <= 1
          /\ (u <= mSource.pulled
                => mSource.released[u] = IF Held(u) THEN 0 ELSE 1)
          /\ (u > mSource.pulled => mSource.released[u] = 0)
    /\ ((last.op = "stop" /\ last.ret = "OK")
          => \A u \in 1..mSource.pulled : mSource.released[u] = 1)

C16_Witness ==
    /\ last.op = "stop" /\ last.ret = "OK"
    /\ Has(last.effects, "input_release")
    /\ mSource.pulled = 3
    /\ \A u \in 1..3 : mSource.released[u] = 1

----------------------------------------------------------------------------
(* The source has been started once more than it has been stopped exactly  *)
(* when the stage is started, and equally often otherwise.                 *)
SourcePaired(c, started) ==
    c.source_start - c.source_stop = IF started THEN 1 ELSE 0

(* C17: in every reachable state the number of mSource->start() calls      *)
(* exceeds the number of mSource->stop() calls by one when mStarted holds  *)
(* and equals it when mStarted does not hold; a start that returns         *)
(* ERROR_UNSUPPORTED has not called mSource->start().                      *)
C17_SourceLifecyclePaired ==
    [][/\ SourcePaired(calls, mStarted) /\ SourcePaired(calls', mStarted')
       /\ ((StartStep /\ last'.ret = "ERROR_UNSUPPORTED")
             => /\ ~Has(last'.effects, "source_start")
                /\ calls'.source_start = calls.source_start
                /\ ~mStarted')
       /\ ((StartStep /\ last'.ret = "OK")
             => /\ calls'.source_start = calls.source_start + 1
                /\ mStarted')]_vars

C17_Witness ==
    /\ last.op = "start" /\ last.ret = "ERROR_UNSUPPORTED"
    /\ calls.config = 1 /\ calls.source_start = 0 /\ calls.source_stop = 0
    /\ ~mStarted

----------------------------------------------------------------------------
(* The read obtained the pool's buffer: acquire_buffer was called on a     *)
(* pool whose buffer was free.                                             *)
AcquiredBuffer ==
    /\ ReadStep
    /\ Has(last'.effects, "pool_acquire")
    /\ mBufferGroup # <<>> /\ mBufferGroup[1].refcount = 0

(* C18: a read that has acquired the pool's buffer returns OK and hands    *)
(* that buffer, with the range and timestamp it set, to the caller, who    *)
(* then holds the only reference; a read returns OK only if it acquired    *)
(* the buffer; a read that returns an error or is fatal took no reference; *)
(* and no read gives up the reference of a buffer that was handed out.     *)
C18_AcquiredBufferIsReturned ==
    [][ReadStep
         => /\ (AcquiredBuffer
                  => /\ last'.ret = "OK" /\ ~fatal'
                     /\ last'.out # <<>>
                     /\ mBufferGroup'[1].refcount = 1
                     /\ mBufferGroup'[1].range_offset = last'.out[1].range_offset
                     /\ mBufferGroup'[1].range_length = last'.out[1].range_length
                     /\ mBufferGroup'[1].time = <<last'.out[1].time>>)
            /\ (last'.ret = "OK" => AcquiredBuffer)
            /\ (last'.ret # "OK"
                  => /\ last'.out = <<>>
                     /\ mBufferGroup' = mBufferGroup)
            /\ ((mBufferGroup # <<>> /\ mBufferGroup[1].refcount = 1)
                  => mBufferGroup'[1].refcount = 1)]_vars

C18_Witness ==
    /\ last.op = "read" /\ last.ret = "OK" /\ last.decoderErr = "FAIL"
    /\ Has(last.effects, "pool_acquire")
    /\ last.out # <<>> /\ last.out[1].range_length = 4096
    /\ mBufferGroup[1].refcount = 1
    /\ mBufferGroup[1].range_length = 4096

----------------------------------------------------------------------------
(* The decode step of this read kept to the assumption: it failed, or it   *)
(* succeeded having consumed at least one byte.                            *)
StepMadeProgress(l, c) ==
    \/ l.decoderErr = "FAIL"
    \/ l.decoderErr = "SUCCESS" /\ c.inputBufferUsedLength >= 1

(* C19: the window of a unit of length n starts as (0, n) and always ends  *)
(* at n. A read that offers a window of length m to the engine, the step   *)
(* failing or consuming k >= 1 bytes, either releases the unit or leaves   *)
(* it held with window length m - k < m, and releases it when m = 1; so a  *)
(* unit of length n is released by the n-th such read at the latest (for   *)
(* n = 2: by the seek-less read that follows the one that pulled it). A    *)
(* step that succeeds consuming zero bytes leaves the same unit held,      *)
(* unreleased, with its window unchanged.                                  *)
C19_UnitReleasedWithinItsLength ==
    [][(ReadStep /\ last'.decoderErr # "NA")
         => LET id == FedUnit(mConfig')
                off == FedOffset(mConfig')
                m == mConfig'.inputBufferCurrentLength
                k == mConfig'.inputBufferUsedLength
                released == mInputBuffer' = <<>> /\ mSource'.released[id] = 1
            IN /\ m >= 1 /\ off + m \in UnitLengths
               /\ (last'.pulled # <<>>
                     => /\ last'.pulled[1].id = id
                        /\ off = 0 /\ m = last'.pulled[1].range_length)
               /\ (StepMadeProgress(last', mConfig')
                     => \/ released
                        \/ /\ last'.decoderErr = "SUCCESS"
                           /\ Len(mInputBuffer') = 1
                           /\ mInputBuffer'[1].id = id
                           /\ mInputBuffer'[1].range_length = m - k
                           /\ mInputBuffer'[1].range_length >= 1
                           /\ mInputBuffer'[1].range_offset
                                + mInputBuffer'[1].range_length = off + m
                           /\ mSource'.released[id] = 0)
               /\ ((StepMadeProgress(last', mConfig') /\ m = 1) => released)
               /\ ((/\ last.op = "read" /\ last.pulled # <<>>
                    /\ last.pulled[1].range_length = 2
                    /\ StepMadeProgress(last, mConfig)
                    /\ last'.options = <<>>
                    /\ StepMadeProgress(last', mConfig'))
                     => mSource'.released[last.pulled[1].id] = 1)
               /\ ((last'.decoderErr = "SUCCESS" /\ k = 0)
                     => /\ Len(mInputBuffer') = 1
                        /\ mInputBuffer'[1].id = id
                        /\ mInputBuffer'[1].range_offset = off
                        /\ mInputBuffer'[1].range_length = m
                        /\ mSource'.released[id] = 0
                        /\ (last'.pulled = <<>> => mInputBuffer' = mInputBuffer))]_vars

C19_Witness ==
    /\ last.op = "read" /\ last.ret = "OK" /\ last.options = <<>>
    /\ last.pulled = <<>> /\ last.decoderErr = "SUCCESS"
    /\ FedUnit(mConfig) = 1 /\ FedOffset(mConfig) = 1
    /\ mConfig.inputBufferCurrentLength = 1 /\ mConfig.inputBufferUsedLength = 1
    /\ mInputBuffer = <<>> /\ mSource.released[1] = 1 /\ mSource.pulled = 1
====
